---------------------------- MODULE Spec2Model ----------------------------
(* A model of src/scripts.py: the scrape -> unify -> clean -> publish      *)
(* pipeline.  Text is modelled as sequences of one-character strings, so   *)
(* that the regular expressions of the source are computed character by    *)
(* character.  Python values are records [k, v]: k is the Python type and  *)
(* v the payload.                                                          *)
EXTENDS Integers, Sequences, FiniteSets, TLC

VARIABLES
  pc,         \* position of the running function
  arg,        \* argument of the pure function applied on its own
  ret,        \* values that function has returned so far
  page,       \* the wikitable elements of the fetched page
  runs,       \* number of times main() has been started
  dfs,        \* extract_tables' result
  combined,   \* unify_tables' result
  cleaned,    \* clean_df's result
  csv,        \* contents of OUTPUT_CSV, "absent" before the first write
  topics,     \* topics the broker holds
  createOutcome, \* what the broker answered to create_topics in this run
  provLog,    \* what ensure_topic / produce_to_kafka printed about provisioning
  producer,   \* "none" | "open" | "closed"
  sent,       \* produce_to_kafka's counter
  idx,        \* 1-based position of the send loop in cleaned
  attempted,  \* messages handed to producer.send, in order
  failed,     \* positions whose send raised
  reported,   \* the count printed by line 181, -1 before
  uncaught,   \* exception that left main(), "none" if none
  kafkaErr    \* main's except clause (lines 202-204) ran

vars == <<pc, arg, ret, page, runs, dfs, combined, cleaned, csv, topics,
          createOutcome, provLog, producer, sent, idx, attempted, failed,
          reported, uncaught, kafkaErr>>

-----------------------------------------------------------------------------
(* Python values *)

NoneV == [k |-> "none", v |-> <<>>]
NaN == [k |-> "nan", v |-> <<>>]
Str(s) == [k |-> "str", v |-> s]
\* a numeric cell; v is the text str() gives for it
Num(s) == [k |-> "num", v |-> s]
IntV(n) == [k |-> "int", v |-> <<n>>]

isna(x) == x.k \in {"none", "nan"}
isstr(x) == x.k = "str"

\* a float m * 10^-e, kept normalised so that equal floats are equal records
RECURSIVE FloatV(_, _)
FloatV(m, e) ==
  IF m = 0 THEN [k |-> "float", v |-> <<0, 0>>]
  ELSE IF e > 0 /\ m % 10 = 0 THEN FloatV(m \div 10, e - 1)
  ELSE [k |-> "float", v |-> <<m, e>>]

-----------------------------------------------------------------------------
(* Characters *)

\* U+00A0, U+00E2, U+20AC: one character each
NBSP == "nbsp"
ACIRC == "a^"
EURO == "euro"

Digits == <<"0", "1", "2", "3", "4", "5", "6", "7", "8", "9">>
UpperCase == <<"A", "B", "C", "D", "E", "F", "G", "H", "I", "J", "K", "L", "M",
               "N", "O", "P", "Q", "R", "S", "T", "U", "V", "W", "X", "Y", "Z">>
LowerCase == <<"a", "b", "c", "d", "e", "f", "g", "h", "i", "j", "k", "l", "m",
               "n", "o", "p", "q", "r", "s", "t", "u", "v", "w", "x", "y", "z">>

IsDigit(c) == c \in {Digits[d] : d \in 1..10}
DigitVal(c) == (CHOOSE d \in 1..10 : Digits[d] = c) - 1
IsSpace(c) == c \in {" ", "\t", "\n", "\r", NBSP}

LowerChar(c) ==
  IF \E i \in 1..26 : UpperCase[i] = c
  THEN LowerCase[CHOOSE i \in 1..26 : UpperCase[i] = c]
  ELSE c

\* str.lower()
Lower(s) == [i \in 1..Len(s) |-> LowerChar(s[i])]

\* str.strip()
Strip(s) ==
  LET keep == {i \in 1..Len(s) : ~IsSpace(s[i])} IN
  IF keep = {} THEN <<>>
  ELSE LET lo == CHOOSE i \in keep : \A j \in keep : i <= j
           hi == CHOOSE i \in keep : \A j \in keep : i >= j
       IN SubSeq(s, lo, hi)

\* s.replace(c, '') for a one-character c
RECURSIVE RemoveChar(_, _)
RemoveChar(s, c) ==
  IF s = <<>> THEN <<>>
  ELSE IF Head(s) = c THEN RemoveChar(Tail(s), c)
  ELSE <<Head(s)>> \o RemoveChar(Tail(s), c)

\* whether s holds lit at position i
HasAt(s, i, lit) ==
  /\ i + Len(lit) - 1 <= Len(s)
  /\ \A k \in 1..Len(lit) : s[i + k - 1] = lit[k]

\* last index of the maximal digit run that starts at i; i - 1 when s[i] is no digit
RECURSIVE DigitsEnd(_, _)
DigitsEnd(s, i) ==
  IF i <= Len(s) /\ IsDigit(s[i]) THEN DigitsEnd(s, i + 1) ELSE i - 1

\* last index of the maximal whitespace run that starts at i; i - 1 when there is none
RECURSIVE SpacesEnd(_, _)
SpacesEnd(s, i) ==
  IF i <= Len(s) /\ IsSpace(s[i]) THEN SpacesEnd(s, i + 1) ELSE i - 1

\* the integer a digit string denotes
RECURSIVE DigitsVal(_)
DigitsVal(s) ==
  IF s = <<>> THEN 0
  ELSE 10 * DigitsVal(SubSeq(s, 1, Len(s) - 1)) + DigitVal(s[Len(s)])

RECURSIVE Pow10(_)
Pow10(n) == IF n = 0 THEN 1 ELSE 10 * Pow10(n - 1)

\* float(text) for text of the shape [0-9]+(\.[0-9]+)?
ToFloat(text) ==
  LET ie == DigitsEnd(text, 1) IN
  IF ie = Len(text) THEN FloatV(DigitsVal(text), 0)
  ELSE FloatV(DigitsVal(SubSeq(text, 1, ie) \o SubSeq(text, ie + 2, Len(text))),
              Len(text) - ie - 1)

\* x / 1_000_000.0
DivMillion(x) == FloatV(x.v[1], x.v[2] + 6)

\* x > n for a float x and an integer n
FloatGt(x, n) == x.v[1] > n * Pow10(x.v[2])

-----------------------------------------------------------------------------
(* remove_bracket_refs, lines 73-78 *)

\* the end of the match of \[.*?\] that starts at i, 0 when there is none:
\* the nearest "]" after i, with no newline in between ("." matches none)
BracketClose(s, i) ==
  LET cands == {j \in (i + 1)..Len(s) :
                  /\ s[j] = "]"
                  /\ \A k \in (i + 1)..(j - 1) : s[k] # "]" /\ s[k] # "\n"}
  IN IF s[i] = "[" /\ cands # {} THEN CHOOSE j \in cands : TRUE ELSE 0

\* re.sub(r'\[.*?\]', '', s): one left-to-right pass
RECURSIVE SubBracketsFrom(_, _)
SubBracketsFrom(s, i) ==
  IF i > Len(s) THEN <<>>
  ELSE IF BracketClose(s, i) > 0 THEN SubBracketsFrom(s, BracketClose(s, i) + 1)
  ELSE <<s[i]>> \o SubBracketsFrom(s, i + 1)

SubBrackets(s) == SubBracketsFrom(s, 1)

\* the mis-encoded dagger of line 77
DAGGER == <<ACIRC, EURO, NBSP>>

\* re.sub(DAGGER, '', s): one left-to-right pass
RECURSIVE SubDaggerFrom(_, _)
SubDaggerFrom(s, i) ==
  IF i > Len(s) THEN <<>>
  ELSE IF HasAt(s, i, DAGGER) THEN SubDaggerFrom(s, i + Len(DAGGER))
  ELSE <<s[i]>> \o SubDaggerFrom(s, i + 1)

SubDagger(s) == SubDaggerFrom(s, 1)

remove_bracket_refs(x) ==
  IF isna(x) THEN x
  ELSE Str(Strip(SubDagger(SubBrackets(x.v))))

-----------------------------------------------------------------------------
(* parse_viewers, lines 80-110 *)

MILLION == <<"m", "i", "l", "l", "i", "o", "n">>

\* end of group 1 of ([0-9]+(?:\.[0-9]+)?)\s*million matched at i, 0 when it
\* does not match there.  The digit runs are taken whole: giving a digit back
\* leaves a digit next, which neither "\.", "\s" nor "m" matches.
MillionAt(s, i) ==
  LET ie == DigitsEnd(s, i)
      fe == IF ie + 1 <= Len(s) /\ s[ie + 1] = "." THEN DigitsEnd(s, ie + 2) ELSE ie
      ne == IF fe >= ie + 2 THEN fe ELSE ie
  IN IF ie >= i /\ HasAt(s, SpacesEnd(s, ne + 1) + 1, MILLION) THEN ne ELSE 0

\* re.search: <<start, end>> of group 1 of the leftmost match, <<>> when none
SearchMillion(s) ==
  LET hits == {i \in 1..Len(s) : MillionAt(s, i) > 0} IN
  IF hits = {} THEN <<>>
  ELSE LET i == CHOOSE h \in hits : \A g \in hits : h <= g IN <<i, MillionAt(s, i)>>

\* re.search(r'([0-9]{n,})', s): the leftmost run of n or more digits, whole
SearchDigitsAtLeast(s, n) ==
  LET hits == {i \in 1..Len(s) : DigitsEnd(s, i) - i + 1 >= n} IN
  IF hits = {} THEN <<>>
  ELSE LET i == CHOOSE h \in hits : \A g \in hits : h <= g IN <<i, DigitsEnd(s, i)>>

\* re.search(r'^([0-9]+(?:\.[0-9]+)?)$', s) on a stripped s
FullNumber(s) ==
  LET ie == DigitsEnd(s, 1) IN
  /\ ie >= 1
  /\ \/ ie = Len(s)
     \/ /\ ie + 2 <= Len(s)
        /\ s[ie + 1] = "."
        /\ DigitsEnd(s, ie + 2) = Len(s)

RawCountDigits == 4
MillionsCeiling == 100

parse_viewers_rule3(s) ==
  IF FullNumber(s)
  THEN IF FloatGt(ToFloat(s), MillionsCeiling) THEN DivMillion(ToFloat(s))
       ELSE ToFloat(s)
  ELSE NoneV

parse_viewers_rule2(s) ==
  LET m2 == SearchDigitsAtLeast(s, RawCountDigits) IN
  IF m2 # <<>> THEN DivMillion(ToFloat(SubSeq(s, m2[1], m2[2])))
  ELSE parse_viewers_rule3(s)

parse_viewers_norm(x) ==
  Strip(RemoveChar(remove_bracket_refs(Str(Lower(x.v))).v, ","))

\* parse_viewers with the raw-count rule tried before the "million" rule
parse_viewers_digits_first(x) ==
  IF isna(x) THEN NoneV
  ELSE LET s == parse_viewers_norm(x)
           m == SearchMillion(s)
           m2 == SearchDigitsAtLeast(s, RawCountDigits)
       IN IF m2 # <<>> THEN DivMillion(ToFloat(SubSeq(s, m2[1], m2[2])))
          ELSE IF m # <<>> THEN ToFloat(SubSeq(s, m[1], m[2]))
          ELSE parse_viewers_rule3(s)

parse_viewers(x) ==
  IF isna(x) THEN NoneV
  ELSE LET s == parse_viewers_norm(x)
           m == SearchMillion(s)
       IN IF m # <<>> THEN ToFloat(SubSeq(s, m[1], m[2]))
          ELSE parse_viewers_rule2(s)

-----------------------------------------------------------------------------
(* extract_year, lines 112-119 *)

YearDigits == 4

\* re.search(r'(\d{4})', s): the leftmost position followed by four digits
SearchYear(s) ==
  LET hits == {i \in 1..Len(s) : DigitsEnd(s, i) - i + 1 >= YearDigits} IN
  IF hits = {} THEN <<>>
  ELSE LET i == CHOOSE h \in hits : \A g \in hits : h <= g
       IN <<i, i + YearDigits - 1>>

extract_year(x) ==
  IF isna(x) THEN NoneV
  ELSE LET s == remove_bracket_refs(Str(x.v)).v
           m == SearchYear(s)
       IN IF m # <<>> THEN IntV(DigitsVal(SubSeq(s, m[1], m[2]))) ELSE NoneV

-----------------------------------------------------------------------------
(* extract_tables, lines 30-42 *)

\* A wikitable element of the page: ok says whether pd.read_html parses it;
\* cols are its column labels and rows its rows of cells, as read_html gives
\* them (an empty cell is NaN, a numeric column holds numbers).
HtmlTable(ok, cols, rows) == [ok |-> ok, cols |-> cols, rows |-> rows]

SOURCE_INDEX == <<"_", "s", "o", "u", "r", "c", "e", "_", "t", "a", "b", "l", "e", "_", "i", "n", "d", "e", "x">>

\* df['_source_table_index'] = i, for the i-th table counted from 0
WithSourceIndex(tbl, i) ==
  [cols |-> Append(tbl.cols, SOURCE_INDEX),
   rows |-> [r \in 1..Len(tbl.rows) |-> Append(tbl.rows[r], Num(<<Digits[i + 1]>>))]]

RECURSIVE extract_tables_from(_, _)
extract_tables_from(tables, i) ==
  IF i > Len(tables) THEN <<>>
  ELSE IF tables[i].ok
  THEN <<WithSourceIndex(tables[i], i - 1)>> \o extract_tables_from(tables, i + 1)
  ELSE extract_tables_from(tables, i + 1)

extract_tables(tables) == extract_tables_from(tables, 1)

-----------------------------------------------------------------------------
(* unify_tables, lines 44-71 *)

K_SHOW == <<"s", "h", "o", "w">>
K_PROGRAMME == <<"p", "r", "o", "g", "r", "a", "m", "m", "e">>
K_PROGRAM == <<"p", "r", "o", "g", "r", "a", "m">>
K_BROADCAST == <<"b", "r", "o", "a", "d", "c", "a", "s", "t">>
K_EPISODE == <<"e", "p", "i", "s", "o", "d", "e">>
K_TITLE == <<"t", "i", "t", "l", "e">>
K_DATE == <<"d", "a", "t", "e">>
K_VIEWERS == <<"v", "i", "e", "w", "e", "r", "s">>
K_NUMBER_OF_VIEWERS == <<"n", "u", "m", "b", "e", "r", " ", "o", "f", " ", "v", "i", "e", "w", "e", "r", "s">>
K_NUMBER_OF_VIEWERS_MILLIONS == <<"n", "u", "m", "b", "e", "r", " ", "o", "f", " ", "v", "i", "e", "w", "e", "r", "s", " ", "(", "m", "i", "l", "l", "i", "o", "n", "s", ")">>
K_NETWORK == <<"n", "e", "t", "w", "o", "r", "k">>
K_CHANNEL == <<"c", "h", "a", "n", "n", "e", "l">>

TitleKeys == <<K_SHOW, K_PROGRAMME, K_PROGRAM, K_BROADCAST, K_EPISODE, K_TITLE>>
DateKeys == <<K_DATE>>
ViewersKeys == <<K_VIEWERS, K_NUMBER_OF_VIEWERS, K_NUMBER_OF_VIEWERS_MILLIONS,
                 K_NUMBER_OF_VIEWERS_MILLIONS>>
NetworkKeys == <<K_NETWORK, K_CHANNEL>>

\* the key that is None
NoKey == <<>>

\* keys = {k.lower(): k for k in rowdict.keys()}; keys.get(name): of the
\* columns whose lower-cased label is name, the dict keeps the last
KeysGet(cols, name) ==
  LET hits == {i \in 1..Len(cols) : Lower(cols[i]) = name} IN
  IF hits = {} THEN NoKey
  ELSE cols[CHOOSE i \in hits : \A j \in hits : i >= j]

\* keys.get(c1) or keys.get(c2) or ...: the first that is neither None nor ''
RECURSIVE FirstKey(_, _)
FirstKey(cols, cands) ==
  IF Len(cands) = 1 THEN KeysGet(cols, cands[1])
  ELSE IF KeysGet(cols, cands[1]) # NoKey THEN KeysGet(cols, cands[1])
  ELSE FirstKey(cols, Tail(cands))

\* rowdict.get(key, None)
RowGet(cols, row, key) ==
  LET hits == {i \in 1..Len(cols) : cols[i] = key} IN
  IF key = NoKey \/ hits = {} THEN NoneV
  ELSE row[CHOOSE i \in hits : \A j \in hits : i >= j]

\* lines 58-63: the first cell, in column order, holding a non-blank string
FallbackTitle(row, title) ==
  LET hits == {i \in 1..Len(row) : isstr(row[i]) /\ Len(Strip(row[i].v)) > 0} IN
  IF hits = {} THEN title
  ELSE row[CHOOSE i \in hits : \A j \in hits : i <= j]

\* unify_row with "programme" looked up before "show"
unify_row_programme_first(cols, row) ==
  LET title == RowGet(cols, row, FirstKey(cols,
                 <<K_PROGRAMME, K_SHOW, K_PROGRAM, K_BROADCAST, K_EPISODE, K_TITLE>>))
  IN [title |-> IF isna(title) THEN FallbackTitle(row, title) ELSE title,
      date |-> RowGet(cols, row, FirstKey(cols, DateKeys)),
      viewers |-> RowGet(cols, row, FirstKey(cols, ViewersKeys)),
      network |-> RowGet(cols, row, FirstKey(cols, NetworkKeys))]

\* lines 52-69: one row
unify_row(cols, row) ==
  LET title == RowGet(cols, row, FirstKey(cols, TitleKeys))
  IN [title |-> IF isna(title) THEN FallbackTitle(row, title) ELSE title,
      date |-> RowGet(cols, row, FirstKey(cols, DateKeys)),
      viewers |-> RowGet(cols, row, FirstKey(cols, ViewersKeys)),
      network |-> RowGet(cols, row, FirstKey(cols, NetworkKeys))]

RECURSIVE normalized_rows(_)
normalized_rows(tables) ==
  IF tables = <<>> THEN <<>>
  ELSE LET df == Head(tables) IN
       [r \in 1..Len(df.rows) |-> unify_row(df.cols, df.rows[r])]
         \o normalized_rows(Tail(tables))

NormalizedColumns == <<"title", "date", "viewers", "network">>

\* pd.DataFrame(rows): a frame built from no rows has no columns
DataFrame(rows) ==
  [columns |-> IF rows = <<>> THEN <<>> ELSE NormalizedColumns, rows |-> rows]

\* lines 47-71, after the emptiness test of line 45
unify_tables(tables) == DataFrame(normalized_rows(tables))

-----------------------------------------------------------------------------
(* clean_df, lines 121-139 *)

HasColumn(df, c) == \E i \in 1..Len(df.columns) : df.columns[i] = c

\* Series.fillna('')
fillna_empty(x) == IF isna(x) THEN Str(<<>>) ELSE x

\* Series.str.replace(r'\s+', ' ', regex=True)
RECURSIVE CollapseSpaces(_, _)
CollapseSpaces(s, i) ==
  IF i > Len(s) THEN <<>>
  ELSE IF IsSpace(s[i]) THEN <<" ">> \o CollapseSpaces(s, SpacesEnd(s, i) + 1)
  ELSE <<s[i]>> \o CollapseSpaces(s, i + 1)

\* lines 123-134 on one row
clean_row(df, r) ==
  LET strip(c, x) == IF HasColumn(df, c) THEN remove_bracket_refs(x) ELSE x
      title == IF HasColumn(df, "title")
               THEN CollapseSpaces(Strip(fillna_empty(strip("title", r.title)).v), 1)
               ELSE r.title.v
  IN [title |-> Str(title),
      date |-> strip("date", r.date),
      viewers |-> strip("viewers", r.viewers),
      network |-> strip("network", r.network),
      title_clean |-> Str(Lower(title)),
      viewers_millions |-> parse_viewers(strip("viewers", r.viewers)),
      year |-> extract_year(strip("date", r.date))]

\* Survives without the test of line 136
Survives_title_only(r) == r.title \notin {Str(<<>>), NoneV}

\* lines 135-136
Survives(r) == r.title \notin {Str(<<>>), NoneV} /\ ~isna(r.viewers_millions)

\* err is the exception raised: df['viewers'] of line 132 on a frame without
\* that column
clean_df(df) ==
  IF ~HasColumn(df, "viewers") \/ ~HasColumn(df, "date") \/ ~HasColumn(df, "title")
  THEN [err |-> "KeyError", rows |-> <<>>]
  ELSE [err |-> "none",
        rows |-> SelectSeq([i \in 1..Len(df.rows) |-> clean_row(df, df.rows[i])],
                           Survives)]

-----------------------------------------------------------------------------
(* The pipeline is idle while a pure function is applied on its own *)

PipelineIdle ==
  /\ page = <<>> /\ runs = 0 /\ dfs = <<>> /\ combined = <<>> /\ cleaned = <<>>
  /\ csv = "absent" /\ topics = {} /\ createOutcome = "none" /\ provLog = "none"
  /\ producer = "none" /\ sent = 0 /\ idx = 0 /\ attempted = <<>> /\ failed = {}
  /\ reported = -1 /\ uncaught = "none" /\ kafkaErr = FALSE

pipelineVars == <<page, runs, dfs, combined, cleaned, csv, topics, createOutcome,
                  provLog, producer, sent, idx, attempted, failed, reported,
                  uncaught, kafkaErr>>

-----------------------------------------------------------------------------
(* remove_bracket_refs applied to a string, and again to its result *)

MaxRefPre == 2
MaxRefSuf == 3
RefAlphabet == {"[", "]", "x", " ", "\n", ACIRC, EURO, NBSP}
RefMiddles == {<<>>, DAGGER, <<"[", "1", "]">>}

\* the inputs: a prefix, one of the middles, a suffix
InitRefs ==
  /\ pc = "remove_bracket_refs"
  /\ \E i \in 0..MaxRefPre, j \in 0..MaxRefSuf :
       \E p \in [1..i -> RefAlphabet], m \in RefMiddles, q \in [1..j -> RefAlphabet] :
         arg = Str(p \o m \o q)
  /\ ret = <<>>
  /\ PipelineIdle

StripOnce ==
  /\ pc = "remove_bracket_refs"
  /\ ret' = <<remove_bracket_refs(arg)>>
  /\ pc' = "once"
  /\ UNCHANGED <<arg, pipelineVars>>

StripTwice ==
  /\ pc = "once"
  /\ ret' = Append(ret, remove_bracket_refs(ret[1]))
  /\ pc' = "twice"
  /\ UNCHANGED <<arg, pipelineVars>>

NextRefs == StripOnce \/ StripTwice

SpecRefs == InitRefs /\ [][NextRefs]_vars

\* C9: stripping reference markers twice gives what stripping once gives,
\* for every string.
C9_StripIdempotent == pc = "twice" => ret[2] = ret[1]

-----------------------------------------------------------------------------
(* parse_viewers applied to a cell *)

MaxViewLen == 4
ViewAlphabet == {"0", "1", "5", ".", ",", " ", "x"}
ViewTails == {<<>>, <<" ", "m", "i", "l", "l", "i", "o", "n">>, <<"m", "i", "l", "l", "i", "o", "n">>, <<" ", "M", "I", "L", "L", "I", "O", "N", "[", "3", "]">>}
EX_20_1_MILLION == <<"2", "0", ".", "1", " ", "m", "i", "l", "l", "i", "o", "n", "[", "3", "]">>
EX_1234567 == <<"1", "2", "3", "4", "5", "6", "7">>
EX_45 == <<"4", "5">>
EX_450 == <<"4", "5", "0">>
EX_GARBAGE == <<"n", "/", "a">>
ViewExamples == {EX_20_1_MILLION, EX_1234567, EX_45, EX_450, EX_GARBAGE}

\* the inputs: a text over the alphabet followed by one of the tails, the
\* examples, and the missing values
InitViewers ==
  /\ pc = "parse_viewers"
  /\ \/ \E n \in 0..MaxViewLen :
          \E b \in [1..n -> ViewAlphabet], t \in ViewTails : arg = Str(b \o t)
     \/ \E s \in ViewExamples : arg = Str(s)
     \/ arg \in {NaN, NoneV}
  /\ ret = <<>>
  /\ PipelineIdle

ParseViewers ==
  /\ pc = "parse_viewers"
  /\ ret' = <<parse_viewers(arg)>>
  /\ pc' = "viewers_returned"
  /\ UNCHANGED <<arg, pipelineVars>>

SpecViewers == InitViewers /\ [][ParseViewers]_vars

\* a non-empty text of digits only
IsDigitText(t) == Len(t) >= 1 /\ \A i \in 1..Len(t) : IsDigit(t[i])

\* an optionally-decimal number: digits, or digits "." digits
IsNumberText(t) ==
  \/ IsDigitText(t)
  \/ \E d \in 2..(Len(t) - 1) :
       /\ t[d] = "."
       /\ IsDigitText(SubSeq(t, 1, d - 1))
       /\ IsDigitText(SubSeq(t, d + 1, Len(t)))

\* the spans <<a, b>> of s that hold a number followed by "million",
\* whitespace allowed in between
C6_MillionSpans(s) ==
  {ab \in (1..Len(s)) \X (1..Len(s)) :
     /\ ab[1] <= ab[2]
     /\ IsNumberText(SubSeq(s, ab[1], ab[2]))
     /\ \E w \in ab[2]..Len(s) :
          /\ \A k \in (ab[2] + 1)..w : IsSpace(s[k])
          /\ HasAt(s, w + 1, MILLION)}

\* the maximal runs <<a, b>> of four or more consecutive digits of s
C6_DigitRuns(s) ==
  {ab \in (1..Len(s)) \X (1..Len(s)) :
     /\ ab[2] - ab[1] + 1 >= 4
     /\ \A k \in ab[1]..ab[2] : IsDigit(s[k])
     /\ (ab[1] = 1 \/ ~IsDigit(s[ab[1] - 1]))
     /\ (ab[2] = Len(s) \/ ~IsDigit(s[ab[2] + 1]))}

\* the span that starts first (the longest of those)
FirstSpan(S) ==
  CHOOSE ab \in S : \A cd \in S :
    ab[1] < cd[1] \/ (ab[1] = cd[1] /\ ab[2] >= cd[2])

\* what the four rules give, in their order, for the cleaned text s
C6_Rules(s) ==
  IF C6_MillionSpans(s) # {}
  THEN LET ab == FirstSpan(C6_MillionSpans(s)) IN ToFloat(SubSeq(s, ab[1], ab[2]))
  ELSE IF C6_DigitRuns(s) # {}
  THEN LET ab == FirstSpan(C6_DigitRuns(s))
       IN FloatV(DigitsVal(SubSeq(s, ab[1], ab[2])), 6)
  ELSE IF IsNumberText(s)
  THEN IF FloatGt(ToFloat(s), 100) THEN FloatV(ToFloat(s).v[1], ToFloat(s).v[2] + 6)
       ELSE ToFloat(s)
  ELSE NoneV

\* C6: parse_viewers returns what the first matching rule gives, in the order
\* "<number> million", a run of 4 or more digits divided by 1,000,000, a bare
\* number (as is when <= 100, divided by 1,000,000 when > 100), else absent;
\* and the five examples of the spec come out as written there.
C6_ViewersPriority ==
  (pc = "viewers_returned" /\ isstr(arg)) =>
    /\ ret[1] = C6_Rules(parse_viewers_norm(arg))
    /\ arg.v = EX_20_1_MILLION => ret[1] = FloatV(201, 1)
    /\ arg.v = EX_1234567 => ret[1] = FloatV(1234567, 6)
    /\ arg.v = EX_45 => ret[1] = FloatV(45, 0)
    /\ arg.v = EX_450 => ret[1] = FloatV(45, 5)
    /\ arg.v = EX_GARBAGE => ret[1] = NoneV

\* a cell where both the "million" rule and the raw-count rule match, and
\* the "million" rule decided
C6_Witness ==
  /\ pc = "viewers_returned"
  /\ isstr(arg)
  /\ C6_MillionSpans(parse_viewers_norm(arg)) # {}
  /\ C6_DigitRuns(parse_viewers_norm(arg)) # {}
  /\ ret[1].k = "float"
  /\ ret[1].v[2] = 0

-----------------------------------------------------------------------------
(* extract_year applied to a cell *)

MaxYearLen == 6
YearAlphabet == {"1", "2", "x", " ", "["}
EX_MARCH_2008 == <<"M", "a", "r", "c", "h", " ", "3", ",", " ", "2", "0", "0", "8", "[", "a", "]">>
EX_UNKNOWN == <<"u", "n", "k", "n", "o", "w", "n">>
InitYear ==
  /\ pc = "extract_year"
  /\ \/ \E n \in 0..MaxYearLen : \E s \in [1..n -> YearAlphabet] : arg = Str(s)
     \/ \E s \in {EX_MARCH_2008, EX_UNKNOWN} : arg = Str(s)
     \/ arg \in {NaN, NoneV}
  /\ ret = <<>>
  /\ PipelineIdle

ExtractYear ==
  /\ pc = "extract_year"
  /\ ret' = <<extract_year(arg)>>
  /\ pc' = "year_returned"
  /\ UNCHANGED <<arg, pipelineVars>>

SpecYear == InitYear /\ [][ExtractYear]_vars

\* the maximal digit runs <<a, b>> of s that are exactly four digits long
C8_FourDigitRuns(s) ==
  {ab \in (1..Len(s)) \X (1..Len(s)) :
     /\ ab[2] - ab[1] + 1 = 4
     /\ \A k \in ab[1]..ab[2] : IsDigit(s[k])
     /\ (ab[1] = 1 \/ ~IsDigit(s[ab[1] - 1]))
     /\ (ab[2] = Len(s) \/ ~IsDigit(s[ab[2] + 1]))}

C8_Year(s) ==
  IF C8_FourDigitRuns(s) # {}
  THEN LET ab == FirstSpan(C8_FourDigitRuns(s)) IN IntV(DigitsVal(SubSeq(s, ab[1], ab[2])))
  ELSE NoneV

\* C8: extract_year returns the value of the first run of exactly four digits
\* of the text left after reference stripping, and absent when there is no
\* such run; a run of five or more digits yields no year.
C8_ExactlyFourDigits ==
  (pc = "year_returned" /\ isstr(arg)) =>
    ret[1] = C8_Year(remove_bracket_refs(arg).v)

-----------------------------------------------------------------------------
(* produce_to_kafka, lines 151-181, and main, lines 183-204 *)

TOPIC == "bonus_22b031177"

\* lines 166-173: the message of one cleaned row
build_msg(row) ==
  [title |-> row.title,
   title_clean |-> row.title_clean,
   date |-> row.date,
   year |-> IF ~isna(row.year) THEN row.year ELSE NoneV,
   viewers_millions |-> IF ~isna(row.viewers_millions) THEN row.viewers_millions
                        ELSE NoneV,
   network |-> row.network]

\* what json.dumps (line 161) writes for a value: a float NaN is written as
\* the bare token NaN
JsonType(x) ==
  CASE x.k = "str" -> "string"
    [] x.k = "none" -> "null"
    [] x.k = "int" -> "integer"
    [] x.k = "float" -> "number"
    [] x.k = "nan" -> "NaN"
    [] OTHER -> "other"

\* what the broker can answer to create_topics
CreateOutcomes == IF TOPIC \in topics THEN {"TopicAlreadyExistsError", "error"}
                  ELSE {"created", "error"}

\* ensure_topic with the except clause of lines 146-147 missing
ensure_topic_no_exists_clause(outcome) ==
  CASE outcome = "created" -> "created"
    [] OTHER -> "warning"

\* lines 141-149: what ensure_topic prints for the broker's answer; it
\* raises nothing
ensure_topic(outcome) ==
  CASE outcome = "created" -> "created"
    [] outcome = "TopicAlreadyExistsError" -> "already_exists"
    [] OTHER -> "warning"

\* line 185: fetch_html returns the page or raises
FetchHtml ==
  /\ pc = "fetch"
  /\ \E ok \in BOOLEAN :
       IF ok THEN pc' = "extract" /\ uncaught' = uncaught
       ELSE pc' = "exit" /\ uncaught' = "HTTPError"
  /\ UNCHANGED <<arg, ret, page, runs, dfs, combined, cleaned, csv, topics,
                 createOutcome, provLog, producer, sent, idx, attempted, failed,
                 reported, kafkaErr>>

\* line 187
ExtractTables ==
  /\ pc = "extract"
  /\ dfs' = extract_tables(page)
  /\ pc' = "unify"
  /\ UNCHANGED <<arg, ret, page, runs, combined, cleaned, csv, topics,
                 createOutcome, provLog, producer, sent, idx, attempted, failed,
                 reported, uncaught, kafkaErr>>

\* line 189: unify_tables raises ValueError on no tables (lines 45-46)
UnifyTables ==
  /\ pc = "unify"
  /\ IF dfs = <<>>
     THEN pc' = "exit" /\ uncaught' = "ValueError" /\ combined' = combined
     ELSE pc' = "clean" /\ uncaught' = uncaught /\ combined' = unify_tables(dfs)
  /\ UNCHANGED <<arg, ret, page, runs, dfs, cleaned, csv, topics,
                 createOutcome, provLog, producer, sent, idx, attempted, failed,
                 reported, kafkaErr>>

\* line 192
CleanDf ==
  /\ pc = "clean"
  /\ IF clean_df(combined).err # "none"
     THEN pc' = "exit" /\ uncaught' = clean_df(combined).err /\ cleaned' = cleaned
     ELSE pc' = "csv" /\ uncaught' = uncaught /\ cleaned' = clean_df(combined).rows
  /\ UNCHANGED <<arg, ret, page, runs, dfs, combined, csv, topics,
                 createOutcome, provLog, producer, sent, idx, attempted, failed,
                 reported, kafkaErr>>

\* line 197
ToCsv ==
  /\ pc = "csv"
  /\ csv' = cleaned
  /\ pc' = "admin"
  /\ UNCHANGED <<arg, ret, page, runs, dfs, combined, cleaned, topics,
                 createOutcome, provLog, producer, sent, idx, attempted, failed,
                 reported, uncaught, kafkaErr>>

\* lines 153-154, 156-157: the admin client connects or raises
CreateAdmin ==
  /\ pc = "admin"
  /\ \E ok \in BOOLEAN :
       IF ok THEN pc' = "ensure_topic" /\ provLog' = provLog
       ELSE pc' = "producer" /\ provLog' = "admin_warning"
  /\ UNCHANGED <<arg, ret, page, runs, dfs, combined, cleaned, csv, topics,
                 createOutcome, producer, sent, idx, attempted, failed,
                 reported, uncaught, kafkaErr>>

\* line 155
EnsureTopic ==
  /\ pc = "ensure_topic"
  /\ \E outcome \in CreateOutcomes :
       /\ createOutcome' = outcome
       /\ provLog' = ensure_topic(outcome)
       /\ topics' = IF outcome = "created" THEN topics \cup {TOPIC} ELSE topics
  /\ pc' = "producer"
  /\ UNCHANGED <<arg, ret, page, runs, dfs, combined, cleaned, csv,
                 producer, sent, idx, attempted, failed,
                 reported, uncaught, kafkaErr>>

\* lines 159-164: KafkaProducer(...) connects or raises; a raise leaves
\* produce_to_kafka and is caught by main (lines 202-204)
CreateProducer ==
  /\ pc = "producer"
  /\ \E ok \in BOOLEAN :
       IF ok
       THEN pc' = "send" /\ producer' = "open" /\ sent' = 0 /\ idx' = 1
            /\ kafkaErr' = kafkaErr
       ELSE pc' = "exit" /\ kafkaErr' = TRUE
            /\ UNCHANGED <<producer, sent, idx>>
  /\ UNCHANGED <<arg, ret, page, runs, dfs, combined, cleaned, csv, topics,
                 createOutcome, provLog, attempted, failed, reported, uncaught>>

\* SendRecord leaving the loop at the first send that raises
SendRecord_abort_on_failure ==
  /\ pc = "send"
  /\ idx <= Len(cleaned)
  /\ attempted' = Append(attempted, [pos |-> idx, msg |-> build_msg(cleaned[idx])])
  /\ \E ok \in BOOLEAN :
       IF ok THEN sent' = sent + 1 /\ failed' = failed /\ idx' = idx + 1
       ELSE sent' = sent /\ failed' = failed \cup {idx} /\ idx' = Len(cleaned) + 1
  /\ UNCHANGED <<pc, arg, ret, page, runs, dfs, combined, cleaned, csv, topics,
                 createOutcome, provLog, producer, reported, uncaught, kafkaErr>>

\* lines 165-178: one turn of the loop; producer.send returns or raises
SendRecord ==
  /\ pc = "send"
  /\ idx <= Len(cleaned)
  /\ attempted' = Append(attempted, [pos |-> idx, msg |-> build_msg(cleaned[idx])])
  /\ \E ok \in BOOLEAN :
       IF ok THEN sent' = sent + 1 /\ failed' = failed
       ELSE sent' = sent /\ failed' = failed \cup {idx}
  /\ idx' = idx + 1
  /\ UNCHANGED <<pc, arg, ret, page, runs, dfs, combined, cleaned, csv, topics,
                 createOutcome, provLog, producer, reported, uncaught, kafkaErr>>

\* line 179: producer.flush() returns or raises; a raise leaves
\* produce_to_kafka and is caught by main (lines 202-204)
Flush ==
  /\ pc = "send"
  /\ idx > Len(cleaned)
  /\ \E ok \in BOOLEAN :
       IF ok THEN pc' = "close" /\ kafkaErr' = kafkaErr
       ELSE pc' = "exit" /\ kafkaErr' = TRUE
  /\ UNCHANGED <<arg, ret, page, runs, dfs, combined, cleaned, csv, topics,
                 createOutcome, provLog, producer, sent, idx, attempted, failed,
                 reported, uncaught>>

\* lines 180-181
CloseAndReport ==
  /\ pc = "close"
  /\ producer' = "closed"
  /\ reported' = sent
  /\ pc' = "exit"
  /\ UNCHANGED <<arg, ret, page, runs, dfs, combined, cleaned, csv, topics,
                 createOutcome, provLog, sent, idx, attempted, failed,
                 uncaught, kafkaErr>>

MaxRuns == 2

\* lines 206-207: the script is started again; the sink file and the
\* broker's topics are what the previous run left
Rerun ==
  /\ pc = "exit"
  /\ runs < MaxRuns
  /\ runs' = runs + 1
  /\ pc' = "fetch"
  /\ dfs' = <<>> /\ combined' = <<>> /\ cleaned' = <<>>
  /\ createOutcome' = "none" /\ provLog' = "none" /\ producer' = "none"
  /\ sent' = 0 /\ idx' = 0 /\ attempted' = <<>> /\ failed' = {}
  /\ reported' = -1 /\ uncaught' = "none" /\ kafkaErr' = FALSE
  /\ UNCHANGED <<arg, ret, page, csv, topics>>

\* The wikitables a page may hold
T_MALFORMED == HtmlTable(FALSE, <<>>, <<>>)
T_HEADER_ONLY == HtmlTable(TRUE, <<<<"S", "h", "o", "w">>, <<"V", "i", "e", "w", "e", "r", "s">>>>, <<>>)
T_A == HtmlTable(TRUE, <<<<"S", "h", "o", "w">>, <<"D", "a", "t", "e">>, <<"V", "i", "e", "w", "e", "r", "s">>, <<"N", "e", "t", "w", "o", "r", "k">>>>,
                 <<<<Str(<<"S", "u", "p", "e", "r", " ", "B", "o", "w", "l", " ", "L", "V", "I", "I">>), Str(<<"F", "e", "b", " ", "1", "2", ",", " ", "2", "0", "2", "3", "[", "1", "]">>), Str(<<"1", "1", "5", ".", "1", " ", "m", "i", "l", "l", "i", "o", "n">>), Str(<<"F", "o", "x">>)>>>>)
T_B == HtmlTable(TRUE, <<<<"P", "r", "o", "g", "r", "a", "m", "m", "e">>, <<"D", "a", "t", "e">>, <<"N", "u", "m", "b", "e", "r", " ", "o", "f", " ", "v", "i", "e", "w", "e", "r", "s", " ", "(", "m", "i", "l", "l", "i", "o", "n", "s", ")">>>>,
                 <<<<Str(<<"E", "v", "e", "n", "t", " ", "X">>), Num(<<"1", "9", "9", "9">>), Str(<<"i", "n", "v", "a", "l", "i", "d">>)>>>>)
T_C == HtmlTable(TRUE, <<<<"R", "a", "n", "k">>, <<"P", "r", "o", "g", "r", "a", "m">>, <<"V", "i", "e", "w", "e", "r", "s">>, <<"C", "h", "a", "n", "n", "e", "l">>, <<"D", "a", "t", "e">>>>,
                 <<<<Num(<<"1">>), Str(<<"M", "*", "A", "*", "S", "*", "H">>), Num(<<"1", "0", "5", ".", "9">>), Str(<<"C", "B", "S">>), NaN>>,
                   <<Num(<<"2">>), Str(<<"R", "o", "o", "t", "s", "[", "b", "]">>), Str(<<"3", "6", ".", "3", "8", " ", "m", "i", "l", "l", "i", "o", "n">>), NaN, Str(<<"1", "9", "7", "7">>)>>>>)
HtmlTables == {T_MALFORMED, T_HEADER_ONLY, T_A, T_B, T_C}

MaxTables == 2

Init ==
  /\ pc = "fetch"
  /\ \E n \in 0..MaxTables : page \in [1..n -> HtmlTables]
  /\ runs = 1
  /\ arg = NoneV /\ ret = <<>>
  /\ dfs = <<>> /\ combined = <<>> /\ cleaned = <<>>
  /\ csv = "absent" /\ topics = {} /\ createOutcome = "none" /\ provLog = "none"
  /\ producer = "none" /\ sent = 0 /\ idx = 0 /\ attempted = <<>> /\ failed = {}
  /\ reported = -1 /\ uncaught = "none" /\ kafkaErr = FALSE

Next ==
  \/ FetchHtml \/ ExtractTables \/ UnifyTables \/ CleanDf \/ ToCsv
  \/ CreateAdmin \/ EnsureTopic \/ CreateProducer \/ SendRecord \/ Flush
  \/ CloseAndReport \/ Rerun

Spec == Init /\ [][Next]_vars

-----------------------------------------------------------------------------
(* Properties of produce_to_kafka and main *)

\* C1: every cleaned record is handed to send exactly once, in input order,
\* whatever sends failed before it, and the count reported at the end is the
\* number of sends that did not fail.
C1_PerMessageIsolation ==
  /\ \A i \in 1..Len(attempted) : attempted[i].pos = i
  /\ pc = "send" => Len(attempted) = idx - 1
  /\ pc = "close" => Len(attempted) = Len(cleaned)
  /\ reported # -1 =>
       /\ Len(attempted) = Len(cleaned)
       /\ reported = Len(cleaned) - Cardinality(failed)

\* a send failed, a later record was still sent, and the count was reported
C1_Witness ==
  /\ reported # -1
  /\ \E i \in failed : \E j \in 1..Len(attempted) : j > i /\ j \notin failed
  /\ reported < Len(cleaned)

\* C2: no execution leaves produce_to_kafka with a producer that was created
\* and not closed.
C2_ProducerClosedOnExit == pc = "exit" => producer # "open"

\* C3: only a fetch failure or zero tables found stops the run with an
\* exception; and no broker operation is attempted before the sink file is
\* written.
C3_OnlyFetchOrNoTablesStop ==
  /\ uncaught # "none" =>
       \/ uncaught = "HTTPError"
       \/ uncaught = "ValueError" /\ dfs = <<>>
  /\ (provLog # "none" \/ producer # "none" \/ kafkaErr) => csv # "absent"

\* provisioning failed: the admin client did not connect, or create_topics
\* failed for another reason than the topic existing
ProvisioningFailed == provLog \in {"warning", "admin_warning"}

\* C4 (as amended): the broker's "topic already exists" answer is reported as
\* "already exists"; no provisioning outcome raises out of ensure_topic or
\* produce_to_kafka, which goes on to create the producer; and after a
\* provisioning failure the send loop is entered exactly when the producer
\* could be created.
C4_ProvisioningBestEffort ==
  /\ createOutcome = "TopicAlreadyExistsError" => provLog = "already_exists"
  /\ provLog # "none" =>
       /\ uncaught = "none"
       /\ pc \in {"producer", "send", "close", "exit"}
  /\ (ProvisioningFailed /\ pc # "producer") =>
       \/ producer # "none" /\ idx >= 1
       \/ producer = "none" /\ idx = 0 /\ kafkaErr /\ pc = "exit"

\* the second run finds the topic the first run created, reports it as
\* existing and enters the send loop
C4_Witness ==
  /\ runs = 2
  /\ createOutcome = "TopicAlreadyExistsError"
  /\ provLog = "already_exists"
  /\ pc = "send"

\* C4 (as stated): after any provisioning failure produce_to_kafka does not
\* raise and the send loop is entered.
C4_LoopAlwaysEntered ==
  (ProvisioningFailed /\ pc = "exit") => (idx >= 1 /\ producer # "none")

\* C10: every message handed to send has title, title_clean, date and network
\* a string or null, year an integer or null, viewers_millions a number or
\* null.
C10_MessageSchema ==
  \A i \in 1..Len(attempted) :
    LET m == attempted[i].msg IN
    /\ JsonType(m.title) \in {"string", "null"}
    /\ JsonType(m.title_clean) \in {"string", "null"}
    /\ JsonType(m.date) \in {"string", "null"}
    /\ JsonType(m.network) \in {"string", "null"}
    /\ JsonType(m.year) \in {"integer", "null"}
    /\ JsonType(m.viewers_millions) \in {"number", "null"}

-----------------------------------------------------------------------------
(* unify_tables on one table of one row *)

MaxCols == 2
UnifyLabels == {<<"S", "h", "o", "w">>, <<"S", "H", "O", "W">>, <<"P", "r", "o", "g", "r", "a", "m", "m", "e">>, <<"T", "i", "t", "l", "e">>,
                <<"E", "p", "i", "s", "o", "d", "e">>, <<"N", "u", "m", "b", "e", "r", " ", "o", "f", " ", "v", "i", "e", "w", "e", "r", "s", " ", "(", "m", "i", "l", "l", "i", "o", "n", "s", ")">>,
                <<"D", "a", "t", "e">>, <<"V", "i", "e", "w", "e", "r", "s">>, <<"N", "u", "m", "b", "e", "r", " ", "o", "f", " ", "v", "i", "e", "w", "e", "r", "s">>,
                <<"N", "e", "t", "w", "o", "r", "k">>, <<"C", "h", "a", "n", "n", "e", "l">>, <<"R", "a", "n", "k">>}


\* the cell of column i: empty, a text or a number, each telling its column
CellOf(i, kind) ==
  CASE kind = "nan" -> NaN
    [] kind = "str" -> Str(<<"c", Digits[i + 1]>>)
    [] kind = "num" -> Num(<<Digits[i + 1]>>)

\* the inputs: no table at all, or one table of one row; its column labels
\* are distinct (read_html renames a repeated label)
InitUnify ==
  /\ pc = "unify"
  /\ \/ dfs = <<>>
     \/ \E n \in 0..MaxCols :
          \E cols \in [1..n -> UnifyLabels], kinds \in [1..n -> {"nan", "str", "num"}] :
            /\ \A i, j \in 1..n : i # j => cols[i] # cols[j]
            /\ dfs = extract_tables(
                  <<HtmlTable(TRUE, cols, <<[i \in 1..n |-> CellOf(i, kinds[i])]>>)>>)
  /\ runs = 1
  /\ arg = NoneV /\ ret = <<>> /\ page = <<>>
  /\ combined = <<>> /\ cleaned = <<>>
  /\ csv = "absent" /\ topics = {} /\ createOutcome = "none" /\ provLog = "none"
  /\ producer = "none" /\ sent = 0 /\ idx = 0 /\ attempted = <<>> /\ failed = {}
  /\ reported = -1 /\ uncaught = "none" /\ kafkaErr = FALSE

SpecUnify == InitUnify /\ [][UnifyTables]_vars

\* the columns of the row whose label, lower-cased, is name
ColumnsNamed(cols, name) == {i \in 1..Len(cols) : Lower(cols[i]) = name}

\* the values the row offers for the first candidate that names a column:
\* None when no candidate does
C7_Offered(cols, row, cands) ==
  LET present == {j \in 1..Len(cands) : ColumnsNamed(cols, cands[j]) # {}} IN
  IF present = {} THEN {NoneV}
  ELSE LET first == CHOOSE j \in present : \A l \in present : j <= l
       IN {row[i] : i \in ColumnsNamed(cols, cands[first])}

IsNonEmptyString(x) == x.k = "str" /\ x.v # <<>>

\* title is the first cell, in column order, that holds a non-empty string;
\* it stays missing when the row holds none
C7_IsFallback(row, title) ==
  \/ \E i \in 1..Len(row) :
       /\ IsNonEmptyString(row[i])
       /\ \A j \in 1..(i - 1) : ~IsNonEmptyString(row[j])
       /\ title = row[i]
  \/ /\ \A i \in 1..Len(row) : ~IsNonEmptyString(row[i])
     /\ isna(title)

\* C7: title comes from the first present column in the order show,
\* programme, program, broadcast, episode, title; when none is present or its
\* value is missing, title is the first non-empty string cell of the row in
\* column order; date, viewers and network come from the first present column
\* of their own candidate lists.
C7_ColumnPrecedence ==
  (pc = "clean" /\ dfs # <<>>) =>
    LET cols == dfs[1].cols
        row == dfs[1].rows[1]
        out == combined.rows[1]
    IN /\ Len(combined.rows) = 1
       /\ \E b \in C7_Offered(cols, row,
                     <<K_SHOW, K_PROGRAMME, K_PROGRAM, K_BROADCAST, K_EPISODE, K_TITLE>>) :
            IF ~isna(b) THEN out.title = b ELSE C7_IsFallback(row, out.title)
       /\ out.date \in C7_Offered(cols, row, <<K_DATE>>)
       /\ out.viewers \in C7_Offered(cols, row,
            <<K_VIEWERS, K_NUMBER_OF_VIEWERS, K_NUMBER_OF_VIEWERS_MILLIONS>>)
       /\ out.network \in C7_Offered(cols, row, <<K_NETWORK, K_CHANNEL>>)

\* a row with a Programme column before its Show column, both filled: the
\* title is the Show cell
C7_Witness ==
  /\ pc = "clean"
  /\ dfs # <<>>
  /\ \E i, j \in 1..Len(dfs[1].cols) :
       /\ j < i
       /\ dfs[1].cols[i] = <<"S", "h", "o", "w">>
       /\ dfs[1].cols[j] = <<"P", "r", "o", "g", "r", "a", "m", "m", "e">>
       /\ ~isna(dfs[1].rows[1][i])
       /\ ~isna(dfs[1].rows[1][j])
       /\ combined.rows[1].title = dfs[1].rows[1][i]

-----------------------------------------------------------------------------
(* clean_df on a frame of normalized records *)

MaxCleanRows == 3
CleanTitles == {NoneV, NaN, Str(<<"[", "1", "]">>), Str(<<"A", " ", "b">>), Str(<<"c", " ", " ", "D", "[", "2", "]">>)}
CleanViewers == {NaN, Str(<<"2", " ", "m", "i", "l", "l", "i", "o", "n">>), Str(<<"n", "/", "a">>)}
NormalizedRecords ==
  {[title |-> ti, date |-> Str(<<"1", "9", "9", "9">>), viewers |-> vi, network |-> Str(<<"F", "o", "x">>)] :
     ti \in CleanTitles, vi \in CleanViewers}

InitClean ==
  /\ pc = "clean"
  /\ \E n \in 0..MaxCleanRows :
       \E rows \in [1..n -> NormalizedRecords] : combined = DataFrame(rows)
  /\ runs = 1
  /\ arg = NoneV /\ ret = <<>> /\ page = <<>> /\ dfs = <<>>
  /\ cleaned = <<>>
  /\ csv = "absent" /\ topics = {} /\ createOutcome = "none" /\ provLog = "none"
  /\ producer = "none" /\ sent = 0 /\ idx = 0 /\ attempted = <<>> /\ failed = {}
  /\ reported = -1 /\ uncaught = "none" /\ kafkaErr = FALSE

SpecClean == InitClean /\ [][CleanDf]_vars

\* the records of the input frame, each as lines 123-134 leave it
C5_CleanedInput == [i \in 1..Len(combined.rows) |-> clean_row(combined, combined.rows[i])]

\* the positions of rows whose record has a non-empty normalized title and
\* a parsed viewers value
C5_Qualifying(rows) ==
  {i \in 1..Len(rows) :
     rows[i].title.k = "str" /\ Len(rows[i].title.v) > 0
       /\ rows[i].viewers_millions.k = "float"}

\* C5: every output record has a non-empty title and a present
\* viewers_millions; every input record with both is in the output; and the
\* output keeps the input's order.
C5_FilterCorrect ==
  pc = "csv" =>
    LET rows == C5_CleanedInput
        keep == C5_Qualifying(rows)
    IN /\ \A j \in 1..Len(cleaned) :
            /\ cleaned[j].title.k = "str"
            /\ cleaned[j].title.v # <<>>
            /\ cleaned[j].viewers_millions.k = "float"
       /\ Len(cleaned) = Cardinality(keep)
       /\ \E f \in [1..Len(cleaned) -> keep] :
            /\ \A a, b \in 1..Len(cleaned) : a < b => f[a] < f[b]
            /\ \A j \in 1..Len(cleaned) : cleaned[j] = rows[f[j]]

\* a frame of which a record was dropped and two different records were kept
C5_Witness ==
  /\ pc = "csv"
  /\ Len(cleaned) = 2
  /\ Len(combined.rows) = 3
  /\ cleaned[1] # cleaned[2]

=============================================================================
